---- MODULE Spec2Model ----
(***************************************************************************)
(* Model of the bfc driver: SingleFileReader (io.rs), compile_file and     *)
(* main (io.rs, main.rs), executable_name (main.rs), PreProcessor (io.rs). *)
(* Byte strings are sequences of one-character strings; a file is the      *)
(* sequence of its bytes and BufRead::read_line is the operator ReadLine.  *)
(* The modules bfir, peephole and execution are not part of the sources    *)
(* at hand: parse_inner, optimize and execute follow the written           *)
(* specification of the optimisation core.                                 *)
(***************************************************************************)
EXTENDS Integers, Sequences, FiniteSets, TLC

VARIABLES
    pc,                   \* position of the run inside main / compile_file
    file, file_exists,    \* the source file named by matches.free[0]
    opt, passes, dump_ir, \* matches: --opt, --passes, --dump-ir
    inner_pos,            \* SingleFileReader.inner: bytes consumed so far
    offset, linenum, buffer, instructions, stack, parse_errors, \* parse locals
    parse_result,         \* value returned by SingleFileReader::parse
    instrs, unformatted_warnings, errors, state, execution_warning,
    result, exit_code,    \* compile_file's return value, the process status
    calls, handed,        \* collaborators invoked so far, arguments of the hand-off
    frames, cells, cell_ptr, steps_executed, budget, outcome, warning,
                          \* execution::execute: control stack and machine state
    bf_path, name_result, \* executable_name: argument and return value
    ctx_file, ctx_idx, ctx_seek_ok, ctx_result, \* get_err_context alone
    rl_pc, main_file, inc_file, inc_exists, reader, file_stack, pp_buffer,
    buffer_idx, rl_ret,   \* PreProcessor and its read_line
    rl_reads              \* underlying reads of the current call, modulo MaxReads + 1

pvars == <<pc, file, file_exists, opt, passes, dump_ir, inner_pos, offset,
           linenum, buffer, instructions, stack, parse_errors, parse_result,
           instrs, unformatted_warnings, errors, state, execution_warning,
           result, exit_code, calls, handed>>
evars == <<frames, cells, cell_ptr, steps_executed, budget, outcome, warning>>
nvars == <<bf_path, name_result>>
cvars == <<ctx_file, ctx_idx, ctx_seek_ok, ctx_result>>
rvars == <<rl_pc, main_file, inc_file, inc_exists, reader, file_stack,
           pp_buffer, buffer_idx, rl_ret, rl_reads>>
vars == <<pvars, evars, nvars, cvars, rvars>>

\* ------------------------------------------------------------------ bounds
MaxFileLen == 3
MaxCtxLen == 4
MaxPathLen == 4
MaxBody == 2
MaxN == 6
MaxLines == 3
MaxOpen == 2
MaxReads == 4

\* ----------------------------------------------------------------- helpers
None == <<>>
Some(x) == <<x>>

RECURSIVE SeqsUpTo(_, _)
SeqsUpTo(S, n) ==
    IF n = 0 THEN {<<>>}
    ELSE LET shorter == SeqsUpTo(S, n - 1)
         IN  shorter \cup {Append(s, x) : s \in {t \in shorter : Len(t) = n - 1}, x \in S}

Last(s) == s[Len(s)]
Front(s) == SubSeq(s, 1, Len(s) - 1)

\* BufRead::read_line: the bytes after position pos up to and including the
\* next newline, or up to the end of the file; empty at end of file.
RECURSIVE LineEnd(_, _)
LineEnd(f, i) ==
    IF i >= Len(f) THEN Len(f)
    ELSE IF f[i] = "\n" THEN i ELSE LineEnd(f, i + 1)

ReadLine(f, pos) ==
    IF pos >= Len(f) THEN <<>> ELSE SubSeq(f, pos + 1, LineEnd(f, pos + 1))

\* -------------------------------------------------------- bfir (IR, parser)
Position(start, end) == [start |-> start, end |-> end]

Node(kind, amount, cell_offset, body, position) ==
    [kind |-> kind, amount |-> amount, cell_offset |-> cell_offset,
     body |-> body, position |-> position]

Increment(amount, cell_offset, position) == Node("Increment", amount, cell_offset, <<>>, position)
PointerMove(amount, position) == Node("PointerMove", amount, 0, <<>>, position)
Read(position) == Node("Read", 0, 0, <<>>, position)
Write(position) == Node("Write", 0, 0, <<>>, position)
Loop(body, position) == Node("Loop", 0, 0, body, position)
Set(amount, cell_offset, position) == Node("Set", amount, cell_offset, <<>>, position)

CommandChars == {"+", "-", ">", "<", ",", "."}

Command(c, index) ==
    LET p == Position(index, index + 1)
    IN  CASE c = "+" -> Increment(1, 0, p)
          [] c = "-" -> Increment(-1, 0, p)
          [] c = ">" -> PointerMove(1, p)
          [] c = "<" -> PointerMove(-1, p)
          [] c = "," -> Read(p)
          [] c = "." -> Write(p)

\* bfir::parse_inner(text, offset, &mut instructions, &mut stack): one pass
\* over the bytes of text from byte i on; a command byte appends one node,
\* '[' pushes the enclosing sequence with the bracket's offset, ']' pops it
\* and appends the finished Loop, or stops with an error when nothing is open.
RECURSIVE parse_inner(_, _, _, _, _)
parse_inner(text, off, i, ins, stk) ==
    IF i > Len(text)
    THEN [instructions |-> ins, stack |-> stk, err |-> None]
    ELSE LET c == text[i]
             index == off + (i - 1)
         IN  IF c \in CommandChars
             THEN parse_inner(text, off, i + 1, Append(ins, Command(c, index)), stk)
             ELSE IF c = "["
             THEN parse_inner(text, off, i + 1, <<>>,
                              Append(stk, [parent |-> ins, open |-> index]))
             ELSE IF c = "]"
             THEN IF stk = <<>>
                  THEN [instructions |-> ins, stack |-> stk,
                        err |-> Some([message |-> "This ] has no matching [",
                                      position |-> Position(index, index + 1)])]
                  ELSE parse_inner(text, off, i + 1,
                                   Append(Last(stk).parent,
                                          Loop(ins, Position(Last(stk).open, index + 1))),
                                   Front(stk))
             ELSE parse_inner(text, off, i + 1, ins, stk)

\* ------------------------------------------------------------- diagnostics
Info(level, filename, message, position, source, line_col) ==
    [level |-> level, filename |-> filename, message |-> message,
     position |-> position, source |-> source, line_col |-> line_col]

Info_warn(msg) == Info("Warning", None, msg, None, None, None)
Info_error(msg) == Info("Error", None, msg, None, None, None)

Warning(message, position) == [message |-> message, position |-> position]

\* ------------------------------------------------ peephole (pass engine)
WrapI8(x) == ((x + 128) % 256) - 128

\* The pass "combine adjacent increments / pointer moves": runs on the same
\* offset collapse into one node with the wrapped sum, a zero node is
\* dropped; loop bodies are optimised recursively.
RECURSIVE combine_increments(_)
combine_increments(seq) ==
    IF seq = <<>> THEN <<>>
    ELSE LET h0 == Head(seq)
             h == IF h0.kind = "Loop"
                  THEN Loop(combine_increments(h0.body), h0.position)
                  ELSE h0
             rest == combine_increments(Tail(seq))
             mergeable ==
                 /\ rest # <<>>
                 /\ h.kind \in {"Increment", "PointerMove"}
                 /\ Head(rest).kind = h.kind
                 /\ Head(rest).cell_offset = h.cell_offset
             sum == IF h.kind = "Increment"
                    THEN WrapI8(h.amount + Head(rest).amount)
                    ELSE h.amount + Head(rest).amount
             merged == Node(h.kind, sum, h.cell_offset, <<>>,
                            Position(h.position.start, Head(rest).position.end))
         IN  IF mergeable
             THEN IF sum = 0 THEN Tail(rest) ELSE <<merged>> \o Tail(rest)
             ELSE <<h>> \o rest

KnownPasses == {"combine_inc"}

RECURSIVE unknown_pass_warnings(_)
unknown_pass_warnings(names) ==
    IF names = <<>> THEN <<>>
    ELSE (IF Head(names) \in KnownPasses THEN <<>>
          ELSE <<Warning("Unknown pass", None)>>)
         \o unknown_pass_warnings(Tail(names))

\* peephole::optimize(instrs, &pass_specification) -> (instrs, warnings)
optimize(ins, pass_specification) ==
    LET names == IF pass_specification = None THEN <<>> ELSE pass_specification[1]
        enabled == IF pass_specification = None THEN KnownPasses
                   ELSE {names[i] : i \in 1..Len(names)} \cap KnownPasses
    IN  [instrs |-> IF "combine_inc" \in enabled THEN combine_increments(ins) ELSE ins,
         warnings |-> unknown_pass_warnings(names)]

\* ---------------------------------------------------------------- execution
MaxStepsBudget == 5
max_steps == MaxStepsBudget

EmptyCells == [x \in {} |-> 0]
Cell(t, o) == IF o \in DOMAIN t THEN t[o] ELSE 0
SetCell(t, o, v) == [x \in DOMAIN t \cup {o} |-> IF x = o THEN v ELSE t[x]]

ExecutionState(t, p, n, start, out) ==
    [cells |-> t, cell_ptr |-> p, steps_executed |-> n, start_instr |-> start,
     outcome |-> out]

\* ExecutionState::initial(&instrs[..])
ExecutionState_initial(ins) == ExecutionState(EmptyCells, 0, 0, None, "Initial")

\* --------------------------------------------------- io.rs: SingleFileReader
Path == <<"p", ".", "b", "f">>

\* SingleFileReader::get_err_context(idx): seek to the start, then read line
\* after line into the one buffer until a line is longer than what is left
\* of idx.
RECURSIVE get_err_context_loop(_, _, _, _, _)
get_err_context_loop(f, pos, idx, line, buf) ==
    LET read == ReadLine(f, pos)
        len == Len(read)
    IN  IF len = 0
        THEN [kind |-> "Err",
              info |-> Info_error("Reached EOF before error context could be found")]
        ELSE IF len > idx
        THEN [kind |-> "Ok",
              ctx |-> [line_col |-> <<line, idx>>, line |-> buf \o read, file |-> Path]]
        ELSE get_err_context_loop(f, pos + len, idx - len, line + 1, buf \o read)

get_err_context(f, idx, seek_ok) ==
    IF ~seek_ok
    THEN [kind |-> "Err",
          info |-> Info("Error", Some(Path), "seek failed", None, None, None)]
    ELSE get_err_context_loop(f, 0, idx, 0, <<>>)

\* ------------------------------------------------- main.rs: executable_name
RECURSIVE split(_, _)
split(s, sep) ==
    IF \A i \in 1..Len(s) : s[i] # sep THEN <<s>>
    ELSE LET k == CHOOSE i \in 1..Len(s) :
                      s[i] = sep /\ \A j \in 1..(i - 1) : s[j] # sep
         IN  <<SubSeq(s, 1, k - 1)>> \o split(SubSeq(s, k + 1, Len(s)), sep)

RECURSIVE join(_, _)
join(parts, sep) ==
    IF parts = <<>> THEN <<>>
    ELSE IF Len(parts) = 1 THEN parts[1]
    ELSE parts[1] \o <<sep>> \o join(Tail(parts), sep)

\* Path::file_name: the last component when it is a normal one. Empty
\* segments and "." segments are not components of their own; a path that
\* ends in "..", or has no normal component at all, has no file name.
file_name(path) ==
    LET segs == SelectSeq(split(path, "/"), LAMBDA c : c # <<>> /\ c # <<".">>)
    IN  IF segs = <<>> THEN None
        ELSE IF Last(segs) = <<".", ".">> THEN None
        ELSE Some(Last(segs))

executable_name_first_part(path) ==
    IF file_name(path) = None
    THEN [kind |-> "Panic", name |-> <<>>]
    ELSE [kind |-> "Ok", name |-> split(file_name(path)[1], ".")[1]]

executable_name(path) ==
    IF file_name(path) = None
    THEN [kind |-> "Panic", name |-> <<>>]
    ELSE LET name_parts == split(file_name(path)[1], ".")
             parts_len == Len(name_parts)
             popped == IF parts_len > 1 THEN Front(name_parts) ELSE name_parts
         IN  [kind |-> "Ok", name |-> join(popped, ".")]

\* ---------------------------------------------------- initial state values
FileBytes == {"+", "-", "[", "]", ",", "\n"}
OptValues == {None, Some("0"), Some("1"), Some("2"), Some("3")}
PassesValues == {None, Some(<<"combine_inc">>), Some(<<"no_such_pass">>)}

NoResult == [kind |-> "None", errors |-> <<>>]
Ok == [kind |-> "Ok", errors |-> <<>>]
Err(es) == [kind |-> "Err", errors |-> es]
ParseResult(kind, ins, es) == [kind |-> kind, instrs |-> ins, errors |-> es]

PipelineIdle ==
    /\ pc = "idle" /\ file = <<>> /\ file_exists = FALSE
    /\ opt = None /\ passes = None /\ dump_ir = FALSE

PipelineLocalsInit ==
    /\ inner_pos = 0 /\ offset = 0 /\ linenum = 0 /\ buffer = <<>>
    /\ instructions = <<>> /\ stack = <<>> /\ parse_errors = <<>>
    /\ parse_result = ParseResult("None", <<>>, <<>>)
    /\ instrs = <<>> /\ unformatted_warnings = <<>> /\ errors = <<>>
    /\ state = None /\ execution_warning = None
    /\ result = NoResult /\ exit_code = -1
    /\ calls = <<>> /\ handed = None

ExecIdle ==
    /\ frames = <<>> /\ cells = EmptyCells /\ cell_ptr = 0
    /\ steps_executed = 0 /\ budget = 0 /\ outcome = "Idle" /\ warning = None

NameIdle == bf_path = <<>> /\ name_result = None
CtxIdle == ctx_file = <<>> /\ ctx_idx = 0 /\ ctx_seek_ok = TRUE /\ ctx_result = None
ReadLineIdle ==
    /\ rl_pc = "idle" /\ main_file = <<>> /\ inc_file = <<>> /\ inc_exists = FALSE
    /\ reader = [file |-> "main", pos |-> 0] /\ file_stack = <<>>
    /\ pp_buffer = <<>> /\ buffer_idx = 0 /\ rl_ret = NoResult /\ rl_reads = 0

\* main has parsed its arguments and found exactly one free argument.
Init ==
    /\ pc = "start"
    /\ file_exists \in BOOLEAN
    /\ file \in IF file_exists THEN SeqsUpTo(FileBytes, MaxFileLen) ELSE {<<>>}
    /\ opt \in OptValues
    /\ passes \in PassesValues
    /\ dump_ir \in BOOLEAN
    /\ PipelineLocalsInit /\ ExecIdle /\ NameIdle /\ CtxIdle /\ ReadLineIdle

opt_level == IF opt = None THEN "2" ELSE opt[1]

\* ------------------------------------------- SingleFileReader::new and parse
\* compile_file, lines 190-195
Open ==
    /\ pc = "start"
    /\ IF file_exists
       THEN /\ pc' = "parse"
            /\ UNCHANGED result
       ELSE /\ pc' = "returned"
            /\ result' = Err(<<Info("Error", Some(Path), "No such file", None, None, None)>>)
    /\ UNCHANGED <<file, file_exists, opt, passes, dump_ir, inner_pos, offset,
                   linenum, buffer, instructions, stack, parse_errors, parse_result,
                   instrs, unformatted_warnings, errors, state, execution_warning,
                   exit_code, calls, handed>>
    /\ UNCHANGED <<evars, nvars, cvars, rvars>>

\* One iteration of the loop of parse that reads a line (Ok(v), v > 0).
ParseLine ==
    /\ pc = "parse"
    /\ LET read == ReadLine(file, inner_pos)
           line_len == Len(read)
           buf == buffer \o read
           r == parse_inner(buf, offset, 1, instructions, stack)
       IN  /\ line_len > 0
           /\ inner_pos' = inner_pos + line_len
           /\ buffer' = buf
           /\ instructions' = r.instructions
           /\ stack' = r.stack
           /\ parse_errors' =
                 IF r.err # None
                 THEN Append(parse_errors,
                             Info("Error", Some(Path), r.err[1].message,
                                  Some(r.err[1].position), Some(buf),
                                  Some(<<linenum, r.err[1].position.start - offset>>)))
                 ELSE parse_errors
           /\ offset' = offset + line_len
           /\ linenum' = linenum + 1
    /\ UNCHANGED <<pc, file, file_exists, opt, passes, dump_ir, parse_result,
                   instrs, unformatted_warnings, errors, state, execution_warning,
                   result, exit_code, calls, handed>>
    /\ UNCHANGED <<evars, nvars, cvars, rvars>>

\* read_line fails: parse returns the errors so far plus the I/O error, and
\* compile_file returns them (the ? of line 197).
ParseIoError ==
    /\ pc = "parse"
    /\ LET es == Append(parse_errors,
                        Info("Error", Some(Path), "read failed", None, None, None))
       IN  /\ parse_errors' = es
           /\ parse_result' = ParseResult("Err", <<>>, es)
           /\ result' = Err(es)
    /\ pc' = "returned"
    /\ UNCHANGED <<file, file_exists, opt, passes, dump_ir, inner_pos, offset,
                   linenum, buffer, instructions, stack,
                   instrs, unformatted_warnings, errors, state, execution_warning,
                   exit_code, calls, handed>>
    /\ UNCHANGED <<evars, nvars, cvars, rvars>>

\* read_line returns Ok(0): parse leaves its loop and returns; compile_file
\* either returns the errors or goes on with the instructions (lines 197-199).
ParseEnd ==
    /\ pc = "parse"
    /\ ReadLine(file, inner_pos) = <<>>
    /\ IF parse_errors # <<>>
       THEN /\ parse_result' = ParseResult("Err", <<>>, parse_errors)
            /\ result' = Err(parse_errors)
            /\ pc' = "returned"
            /\ UNCHANGED instrs
       ELSE /\ parse_result' = ParseResult("Ok", instructions, <<>>)
            /\ instrs' = instructions
            /\ pc' = "optimize"
            /\ UNCHANGED result
    /\ UNCHANGED <<file, file_exists, opt, passes, dump_ir, inner_pos, offset,
                   linenum, buffer, instructions, stack, parse_errors,
                   unformatted_warnings, errors, state, execution_warning,
                   exit_code, calls, handed>>
    /\ UNCHANGED <<evars, nvars, cvars, rvars>>

\* --------------------------------------------------------- compile_file
RunsOptimizer_ignores_level(level) == TRUE
RunsOptimizer(level) == level # "0"
RunsExecution_at_every_level(level) == level # "0"
RunsExecution(level) == level = "2"

\* lines 201-207, opt_level != "0"
Optimize ==
    /\ pc = "optimize"
    /\ RunsOptimizer(opt_level)
    /\ LET r == optimize(instrs, passes)
       IN  /\ instrs' = r.instrs
           /\ unformatted_warnings' = r.warnings
    /\ calls' = Append(calls, "optimize")
    /\ pc' = "dump_ir"
    /\ UNCHANGED <<file, file_exists, opt, passes, dump_ir, inner_pos, offset,
                   linenum, buffer, instructions, stack, parse_errors, parse_result,
                   errors, state, execution_warning, result, exit_code, handed>>
    /\ UNCHANGED <<evars, nvars, cvars, rvars>>

\* line 202, opt_level == "0"
SkipOptimize ==
    /\ pc = "optimize"
    /\ ~RunsOptimizer(opt_level)
    /\ pc' = "dump_ir"
    /\ UNCHANGED <<file, file_exists, opt, passes, dump_ir, inner_pos, offset,
                   linenum, buffer, instructions, stack, parse_errors, parse_result,
                   instrs, unformatted_warnings, errors, state, execution_warning,
                   result, exit_code, calls, handed>>
    /\ UNCHANGED <<evars, nvars, cvars, rvars>>

\* lines 209-214
DumpIr ==
    /\ pc = "dump_ir"
    /\ dump_ir
    /\ result' = Ok
    /\ pc' = "returned"
    /\ UNCHANGED <<file, file_exists, opt, passes, dump_ir, inner_pos, offset,
                   linenum, buffer, instructions, stack, parse_errors, parse_result,
                   instrs, unformatted_warnings, errors, state, execution_warning,
                   exit_code, calls, handed>>
    /\ UNCHANGED <<evars, nvars, cvars, rvars>>

\* lines 216-217: execution::execute(&instrs, execution::max_steps()) starts.
CallExecute ==
    /\ pc = "dump_ir"
    /\ ~dump_ir
    /\ RunsExecution(opt_level)
    /\ calls' = Append(calls, "execute")
    /\ frames' = <<[body |-> instrs, idx |-> 1]>>
    /\ cells' = EmptyCells
    /\ cell_ptr' = 0
    /\ steps_executed' = 0
    /\ budget' = max_steps
    /\ outcome' = "Running"
    /\ warning' = None
    /\ pc' = "execute"
    /\ UNCHANGED <<file, file_exists, opt, passes, dump_ir, inner_pos, offset,
                   linenum, buffer, instructions, stack, parse_errors, parse_result,
                   instrs, unformatted_warnings, errors, state, execution_warning,
                   result, exit_code, handed>>
    /\ UNCHANGED <<nvars, cvars, rvars>>

\* lines 218-223: the initial state, started at &instrs[0]; indexing the
\* empty program panics.
InitialState ==
    /\ pc = "dump_ir"
    /\ ~dump_ir
    /\ ~RunsExecution(opt_level)
    /\ IF instrs = <<>>
       THEN /\ pc' = "panicked"
            /\ UNCHANGED <<state, execution_warning>>
       ELSE /\ state' = Some([ExecutionState_initial(instrs) EXCEPT
                                  !.start_instr = Some(<<1>>)])
            /\ execution_warning' = None
            /\ pc' = "warnings"
    /\ UNCHANGED <<file, file_exists, opt, passes, dump_ir, inner_pos, offset,
                   linenum, buffer, instructions, stack, parse_errors, parse_result,
                   instrs, unformatted_warnings, errors,
                   result, exit_code, calls, handed>>
    /\ UNCHANGED <<evars, nvars, cvars, rvars>>

\* ------------------------------------------------------ execution::execute
\* The engine works on a stack of frames, one per loop being executed, the
\* last one innermost; every executed instruction and every evaluation of a
\* loop condition is one step of the global budget.
Cur == Last(frames)
AtEnd == Cur.idx > Len(Cur.body)
Instr == Cur.body[Cur.idx]
Running == pc = "execute" /\ outcome = "Running"
budget_reached_one_late(n, max) == n > max
budget_reached(n, max) == n >= max
Advance == [frames EXCEPT ![Len(frames)].idx = @ + 1]
EnclosingLoop == frames[Len(frames) - 1].body[frames[Len(frames) - 1].idx]

\* The budget is used up: the engine stops where it is.
ExecBudget ==
    /\ Running
    /\ budget_reached(steps_executed, budget)
    /\ outcome' = "StepBudgetExhausted"
    /\ warning' = IF warning = None /\ Len(frames) > 1
                  THEN Some(Warning("This loop may never terminate",
                                    Some(EnclosingLoop.position)))
                  ELSE warning
    /\ UNCHANGED <<frames, cells, cell_ptr, steps_executed, budget>>
    /\ UNCHANGED <<pvars, nvars, cvars, rvars>>

\* Increment, Set, PointerMove, Write: one step each.
ExecPrim ==
    /\ Running
    /\ ~budget_reached(steps_executed, budget)
    /\ ~AtEnd
    /\ Instr.kind \in {"Increment", "Set", "PointerMove", "Write"}
    /\ LET target == cell_ptr + Instr.cell_offset
           sum == Cell(cells, target) + Instr.amount
       IN  /\ cells' = CASE Instr.kind = "Increment" -> SetCell(cells, target, sum % 256)
                         [] Instr.kind = "Set" -> SetCell(cells, target, Instr.amount % 256)
                         [] OTHER -> cells
           /\ warning' = IF /\ Instr.kind = "Increment"
                            /\ warning = None
                            /\ sum \notin 0..255
                         THEN Some(Warning("This operation wraps the cell value",
                                           Some(Instr.position)))
                         ELSE warning
    /\ cell_ptr' = IF Instr.kind = "PointerMove" THEN cell_ptr + Instr.amount ELSE cell_ptr
    /\ frames' = Advance
    /\ steps_executed' = steps_executed + 1
    /\ UNCHANGED <<budget, outcome>>
    /\ UNCHANGED <<pvars, nvars, cvars, rvars>>

\* Loop: the condition is evaluated before each iteration.
ExecLoop ==
    /\ Running
    /\ ~budget_reached(steps_executed, budget)
    /\ ~AtEnd
    /\ Instr.kind = "Loop"
    /\ frames' = IF Cell(cells, cell_ptr) = 0
                 THEN Advance
                 ELSE Append(frames, [body |-> Instr.body, idx |-> 1])
    /\ steps_executed' = steps_executed + 1
    /\ UNCHANGED <<cells, cell_ptr, budget, outcome, warning>>
    /\ UNCHANGED <<pvars, nvars, cvars, rvars>>

\* End of a loop body: back to the condition of the loop.
ExecLoopEnd ==
    /\ Running
    /\ ~budget_reached(steps_executed, budget)
    /\ AtEnd
    /\ Len(frames) > 1
    /\ frames' = Front(frames)
    /\ UNCHANGED <<cells, cell_ptr, steps_executed, budget, outcome, warning>>
    /\ UNCHANGED <<pvars, nvars, cvars, rvars>>

\* Read: compile-time evaluation stops here.
ExecRead ==
    /\ Running
    /\ ~budget_reached(steps_executed, budget)
    /\ ~AtEnd
    /\ Instr.kind = "Read"
    /\ outcome' = "ReadEncountered"
    /\ UNCHANGED <<frames, cells, cell_ptr, steps_executed, budget, warning>>
    /\ UNCHANGED <<pvars, nvars, cvars, rvars>>

\* End of the program.
ExecComplete ==
    /\ Running
    /\ ~budget_reached(steps_executed, budget)
    /\ AtEnd
    /\ Len(frames) = 1
    /\ outcome' = "Completed"
    /\ UNCHANGED <<frames, cells, cell_ptr, steps_executed, budget, warning>>
    /\ UNCHANGED <<pvars, nvars, cvars, rvars>>

\* execute returns (state, execution_warning) to compile_file, line 216.
ExecReturn ==
    /\ pc = "execute"
    /\ outcome \in {"StepBudgetExhausted", "ReadEncountered", "Completed"}
    /\ state' = Some(ExecutionState(cells, cell_ptr, steps_executed,
                                    IF outcome = "Completed" THEN None
                                    ELSE Some([i \in 1..Len(frames) |-> frames[i].idx]),
                                    outcome))
    /\ execution_warning' = warning
    /\ pc' = "warnings"
    /\ UNCHANGED <<file, file_exists, opt, passes, dump_ir, inner_pos, offset,
                   linenum, buffer, instructions, stack, parse_errors, parse_result,
                   instrs, unformatted_warnings, errors,
                   result, exit_code, calls, handed>>
    /\ UNCHANGED <<evars, nvars, cvars, rvars>>

ExecNext ==
    \/ ExecBudget
    \/ ExecPrim
    \/ ExecLoop
    \/ ExecLoopEnd
    \/ ExecRead
    \/ ExecComplete
    \/ ExecReturn

\* ------------------------------------------- compile_file, lines 225-259
\* lines 225-227
CollectWarning ==
    /\ pc = "warnings"
    /\ unformatted_warnings' = IF execution_warning # None
                               THEN Append(unformatted_warnings, execution_warning[1])
                               ELSE unformatted_warnings
    /\ pc' = "format"
    /\ UNCHANGED <<file, file_exists, opt, passes, dump_ir, inner_pos, offset,
                   linenum, buffer, instructions, stack, parse_errors, parse_result,
                   instrs, errors, state, execution_warning,
                   result, exit_code, calls, handed>>
    /\ UNCHANGED <<evars, nvars, cvars, rvars>>

\* One iteration of the loop of lines 229-248.
FormatWarning ==
    /\ pc = "format"
    /\ unformatted_warnings # <<>>
    /\ \E seek_ok \in BOOLEAN :
         LET w == Head(unformatted_warnings)
             c == get_err_context(file, w.position[1].start, seek_ok)
             info == IF w.position # None
                     THEN IF c.kind = "Ok"
                          THEN Info("Warning", Some(c.ctx.file), w.message, w.position,
                                    Some(c.ctx.line), Some(c.ctx.line_col))
                          ELSE c.info
                     ELSE Info_warn(w.message)
         IN  /\ w.position = None => seek_ok
             /\ errors' = Append(errors, info)
    /\ unformatted_warnings' = Tail(unformatted_warnings)
    /\ UNCHANGED <<pc, file, file_exists, opt, passes, dump_ir, inner_pos, offset,
                   linenum, buffer, instructions, stack, parse_errors, parse_result,
                   instrs, state, execution_warning,
                   result, exit_code, calls, handed>>
    /\ UNCHANGED <<evars, nvars, cvars, rvars>>

\* lines 250-252: handoff_to_llvm(path, matches, &instrs[..], &state); code
\* generation, linking and stripping succeed or fail outside of this program.
Handoff ==
    /\ pc = "format"
    /\ unformatted_warnings = <<>>
    /\ \E ok \in BOOLEAN :
         /\ handed' = Some([instrs |-> instrs, state |-> state[1], ok |-> ok,
                            output_name |-> executable_name(Path).name])
         /\ errors' = IF ok THEN errors
                      ELSE Append(errors, Info_error("code generation failed"))
    /\ calls' = Append(calls, "handoff")
    /\ pc' = "finish"
    /\ UNCHANGED <<file, file_exists, opt, passes, dump_ir, inner_pos, offset,
                   linenum, buffer, instructions, stack, parse_errors, parse_result,
                   instrs, unformatted_warnings, state, execution_warning,
                   result, exit_code>>
    /\ UNCHANGED <<evars, nvars, cvars, rvars>>

\* lines 254-258
Return ==
    /\ pc = "finish"
    /\ result' = IF errors # <<>> THEN Err(errors) ELSE Ok
    /\ pc' = "returned"
    /\ UNCHANGED <<file, file_exists, opt, passes, dump_ir, inner_pos, offset,
                   linenum, buffer, instructions, stack, parse_errors, parse_result,
                   instrs, unformatted_warnings, errors, state, execution_warning,
                   exit_code, calls, handed>>
    /\ UNCHANGED <<evars, nvars, cvars, rvars>>

\* main, lines 132-140
MainExit ==
    /\ pc = "returned"
    /\ exit_code' = IF result.kind = "Ok" THEN 0 ELSE 2
    /\ pc' = "exited"
    /\ UNCHANGED <<file, file_exists, opt, passes, dump_ir, inner_pos, offset,
                   linenum, buffer, instructions, stack, parse_errors, parse_result,
                   instrs, unformatted_warnings, errors, state, execution_warning,
                   result, calls, handed>>
    /\ UNCHANGED <<evars, nvars, cvars, rvars>>

Next ==
    \/ Open
    \/ ParseLine
    \/ ParseIoError
    \/ ParseEnd
    \/ Optimize
    \/ SkipOptimize
    \/ DumpIr
    \/ CallExecute
    \/ InitialState
    \/ ExecNext
    \/ CollectWarning
    \/ FormatWarning
    \/ Handoff
    \/ Return
    \/ MainExit

Spec == Init /\ [][Next]_vars

\* ------------------------------------------------ properties of the pipeline
Called(c) == \E i \in 1..Len(calls) : calls[i] = c

RECURSIVE Scan(_, _, _)
Scan(f, i, depth) ==
    IF i > Len(f) THEN depth = 0
    ELSE IF f[i] = "[" THEN Scan(f, i + 1, depth + 1)
    ELSE IF f[i] = "]" THEN depth > 0 /\ Scan(f, i + 1, depth - 1)
    ELSE Scan(f, i + 1, depth)

BracketsBalanced(f) == Scan(f, 1, 0)

OnlyWarnings == \A i \in 1..Len(errors) : errors[i].level = "Warning"

\* C1: when parsing succeeds and the hand-off succeeds, compile_file returns
\* Ok and main exits with status 0, also when warnings were produced.
C1_WarningsNeverFail ==
    (/\ pc \in {"returned", "exited"}
     /\ parse_result.kind = "Ok"
     /\ handed # None
     /\ handed[1].ok
     /\ OnlyWarnings)
    => /\ result.kind = "Ok"
       /\ pc = "exited" => exit_code = 0

\* C2: compile_file never panics while it builds the initial machine state,
\* whatever the parsed program and the optimisation level.
C2_NeverPanics == pc # "panicked"

\* C3: a file with unbalanced brackets is rejected by parse, and nothing of
\* it reaches the optimizer or the code generator.
C3_UnbalancedRejected ==
    (file_exists /\ ~BracketsBalanced(file))
    => /\ parse_result.kind # "Ok"
       /\ ~Called("optimize")
       /\ ~Called("handoff")

\* C4: at level "0" neither optimize nor execute is invoked, no warning is
\* produced, and the code generator gets the parser's instructions.
C4_LevelZeroSkipsCore ==
    opt_level = "0"
    => /\ ~Called("optimize")
       /\ ~Called("execute")
       /\ unformatted_warnings = <<>>
       /\ execution_warning = None
       /\ \A i \in 1..Len(errors) : errors[i].level # "Warning"
       /\ handed # None => handed[1].instrs = parse_result.instrs

C4_Witness ==
    /\ opt_level = "0"
    /\ handed # None
    /\ handed[1].instrs = parse_result.instrs
    /\ combine_increments(parse_result.instrs) # parse_result.instrs

HandedExecuted ==
    /\ handed[1].state.outcome \in {"StepBudgetExhausted", "ReadEncountered", "Completed"}
    /\ handed[1].state.cells = cells
    /\ handed[1].state.cell_ptr = cell_ptr
    /\ handed[1].state.steps_executed = steps_executed
    /\ handed[1].state.outcome = outcome

\* C5 as stated: at every level other than "0" a run that reaches the code
\* generator has run optimize, then execute, and hands over execute's state.
C5_ExecutesAtEveryLevel ==
    (opt_level # "0" /\ handed # None)
    => /\ calls = <<"optimize", "execute", "handoff">>
       /\ HandedExecuted

\* C5 amended: that holds at level "2" (also the default); at the other
\* levels different from "0" optimize runs, execute does not, and the code
\* generator gets the initial state started at the first instruction.
C5_ExecutesAtLevelTwo ==
    handed # None
    => /\ opt_level = "2"
          => /\ calls = <<"optimize", "execute", "handoff">>
             /\ HandedExecuted
             /\ handed[1].instrs = optimize(parse_result.instrs, passes).instrs
       /\ opt_level \notin {"0", "2"}
          => /\ calls = <<"optimize", "handoff">>
             /\ handed[1].instrs = optimize(parse_result.instrs, passes).instrs
             /\ handed[1].state = [ExecutionState_initial(handed[1].instrs)
                                       EXCEPT !.start_instr = Some(<<1>>)]

C5_Witness ==
    /\ opt = None
    /\ handed # None
    /\ handed[1].state.steps_executed > 0
    /\ handed[1].instrs # parse_result.instrs

\* C8: for a balanced file parse returns what one parse of the whole text
\* at offset 0 returns.
C8_LineByLineEqualsWhole ==
    (parse_result.kind = "Ok" /\ BracketsBalanced(file))
    => parse_result.instrs = parse_inner(file, 0, 1, <<>>, <<>>).instructions

\* ------------------------------------------- execute on its own (C6)
Pos0 == Position(0, 1)
Prefixes == {Set(0, 0, Pos0), Set(3, 0, Pos0), Increment(1, 0, Pos0), Increment(-1, 0, Pos0)}
BodyInstrs == {Write(Pos0), PointerMove(1, Pos0), PointerMove(-1, Pos0),
               Increment(1, 1, Pos0), Increment(-1, 0, Pos0), Read(Pos0),
               Loop(<<Write(Pos0)>>, Pos0)}
ExecPrograms == {<<p, Loop(b, Pos0)>> : p \in Prefixes, b \in SeqsUpTo(BodyInstrs, MaxBody)}

InitExec ==
    /\ pc = "execute"
    /\ file = <<>> /\ file_exists = FALSE
    /\ opt = None /\ passes = None /\ dump_ir = FALSE
    /\ inner_pos = 0 /\ offset = 0 /\ linenum = 0 /\ buffer = <<>>
    /\ instructions = <<>> /\ stack = <<>> /\ parse_errors = <<>>
    /\ parse_result = ParseResult("None", <<>>, <<>>)
    /\ instrs \in ExecPrograms
    /\ unformatted_warnings = <<>> /\ errors = <<>>
    /\ state = None /\ execution_warning = None
    /\ result = NoResult /\ exit_code = -1
    /\ calls = <<"execute">> /\ handed = None
    /\ frames = <<[body |-> instrs, idx |-> 1]>>
    /\ cells = EmptyCells /\ cell_ptr = 0 /\ steps_executed = 0
    /\ budget \in 1..MaxN
    /\ outcome = "Running" /\ warning = None
    /\ NameIdle /\ CtxIdle /\ ReadLineIdle

SpecExec == InitExec /\ [][ExecNext]_vars
FairSpecExec == SpecExec /\ WF_vars(ExecNext)

\* Walk a loop body from pointer displacement d[1]: the displacement after
\* it, or None when the body reads, or writes the cell at displacement 0,
\* or holds an inner loop that does not come back to where it started.
RECURSIVE Walk(_, _, _)
Walk(body, i, d) ==
    IF d = None \/ i > Len(body) THEN d
    ELSE LET n == body[i]
         IN  CASE n.kind = "Read" -> None
               [] n.kind \in {"Increment", "Set"} ->
                    IF d[1] + n.cell_offset = 0 THEN None ELSE Walk(body, i + 1, d)
               [] n.kind = "PointerMove" -> Walk(body, i + 1, Some(d[1] + n.amount))
               [] n.kind = "Write" -> Walk(body, i + 1, d)
               [] n.kind = "Loop" ->
                    IF Walk(n.body, 1, d) = d THEN Walk(body, i + 1, d) ELSE None

SetsNonzero(n) ==
    /\ n.cell_offset = 0
    /\ \/ n.kind = "Increment" /\ n.amount % 256 # 0
       \/ n.kind = "Set" /\ n.amount % 256 # 0

\* The programs C6 is about: the current cell is set to a nonzero value,
\* then comes a loop whose body leaves that cell alone and is back on it
\* at every test of the condition.
C6Shape(prog) ==
    /\ Len(prog) = 2
    /\ SetsNonzero(prog[1])
    /\ prog[2].kind = "Loop"
    /\ Walk(prog[2].body, 1, Some(0)) = Some(0)

PathBytes == {"a", "b", ".", "/"}

InitName ==
    /\ bf_path \in SeqsUpTo(PathBytes, MaxPathLen) \ {<<>>}
    /\ name_result = None
    /\ PipelineIdle /\ PipelineLocalsInit /\ ExecIdle /\ CtxIdle /\ ReadLineIdle

CallExecutableName ==
    /\ name_result = None
    /\ name_result' = Some(executable_name(bf_path))
    /\ UNCHANGED <<bf_path, pvars, evars, cvars, rvars>>

NextName == CallExecutableName

SpecName == InitName /\ [][NextName]_vars

\* comp is the final component of path: a stretch without '/' that is
\* neither "." nor "..", starts the path or follows a '/', and is followed
\* only by separators and "." components.
Trailer(t) ==
    /\ \A i \in 1..Len(t) : t[i] \in {"/", "."}
    /\ t # <<>> => t[1] = "/"
    /\ \A i \in 1..(Len(t) - 1) : ~(t[i] = "." /\ t[i + 1] = ".")

FinalComponent(path, i, j) ==
    /\ \A k \in i..j : path[k] # "/"
    /\ SubSeq(path, i, j) \notin {<<".">>, <<".", ".">>}
    /\ i = 1 \/ path[i - 1] = "/"
    /\ Trailer(SubSeq(path, j + 1, Len(path)))

HasFinalComponent(path) ==
    \E i \in 1..Len(path) : \E j \in i..Len(path) : FinalComponent(path, i, j)

\* comp without its last extension: everything before the last '.', or all
\* of comp when there is no '.'.
StripExtension(comp) ==
    IF \A k \in 1..Len(comp) : comp[k] # "." THEN comp
    ELSE LET d == CHOOSE k \in 1..Len(comp) :
                      comp[k] = "." /\ \A m \in (k + 1)..Len(comp) : comp[m] # "."
         IN  SubSeq(comp, 1, d - 1)

NameIsStripped ==
    /\ name_result[1].kind = "Ok"
    /\ \A i \in 1..Len(bf_path) : \A j \in i..Len(bf_path) :
          FinalComponent(bf_path, i, j)
          => name_result[1].name = StripExtension(SubSeq(bf_path, i, j))

\* C7 as stated: for every path executable_name returns the final component
\* without its last extension.
C7_EveryPath ==
    name_result # None => HasFinalComponent(bf_path) /\ NameIsStripped

\* C7 amended: it does so for every path that has a final component.
C7_PathsWithFileName ==
    (name_result # None /\ HasFinalComponent(bf_path)) => NameIsStripped

C7_Witness ==
    /\ name_result # None
    /\ bf_path = <<"a", "/", "b", ".">>
    /\ name_result[1] = [kind |-> "Ok", name |-> <<"b">>]

\* ------------------------------------- get_err_context on its own (C9)
CtxBytes == {"a", "\n"}

InitCtx ==
    /\ ctx_file \in SeqsUpTo(CtxBytes, MaxCtxLen) \ {<<>>}
    /\ ctx_idx \in 0..MaxCtxLen
    /\ ctx_seek_ok \in BOOLEAN
    /\ ctx_result = None
    /\ PipelineIdle /\ PipelineLocalsInit /\ ExecIdle /\ NameIdle /\ ReadLineIdle

CallGetErrContext ==
    /\ ctx_result = None
    /\ ctx_result' = Some(get_err_context(ctx_file, ctx_idx, ctx_seek_ok))
    /\ UNCHANGED <<ctx_file, ctx_idx, ctx_seek_ok, pvars, evars, nvars, rvars>>

NextCtx == CallGetErrContext

SpecCtx == InitCtx /\ [][NextCtx]_vars

\* The line that holds byte idx (counted from 0): its number is the number
\* of newlines before the byte, it starts after the last of them and ends
\* with the next newline or with the file.
NewlinesBefore(f, idx) == Cardinality({k \in 1..idx : f[k] = "\n"})
LineStartOf(f, idx) ==
    IF NewlinesBefore(f, idx) = 0 THEN 0
    ELSE CHOOSE k \in 1..idx : f[k] = "\n" /\ \A m \in (k + 1)..idx : f[m] # "\n"
LineEndOf(f, idx) ==
    IF \A k \in (idx + 1)..Len(f) : f[k] # "\n" THEN Len(f)
    ELSE CHOOSE k \in (idx + 1)..Len(f) :
             f[k] = "\n" /\ \A m \in (idx + 1)..(k - 1) : f[m] # "\n"

\* C9: for idx inside the file get_err_context returns the line number, the
\* column inside that line, and the text of that line alone.
C9_LineColAndLine ==
    (ctx_result # None /\ ctx_seek_ok /\ ctx_idx < Len(ctx_file))
    => /\ ctx_result[1].kind = "Ok"
       /\ ctx_result[1].ctx.line_col =
             <<NewlinesBefore(ctx_file, ctx_idx), ctx_idx - LineStartOf(ctx_file, ctx_idx)>>
       /\ ctx_result[1].ctx.line =
             SubSeq(ctx_file, LineStartOf(ctx_file, ctx_idx) + 1, LineEndOf(ctx_file, ctx_idx))

\* ------------------------------------------- PreProcessor::read_line (C10)
\* A line is known by its kind: "text" does not start with '#', "blank" is
\* white space only, "hash" starts with '#' and is no include directive,
\* "inc" is a line that the regex includes matches.
LineKinds == {"text", "blank", "hash", "inc"}
LineLen(kind) == IF kind = "blank" THEN 1 ELSE 2

Content(name) == IF name = "main" THEN main_file ELSE inc_file

\* String::starts_with('#') on the accumulated buffer
starts_with_hash(buf) == buf # <<>> /\ buf[1] \in {"hash", "inc"}

\* includes.captures(&self.buffer): the regex is anchored at both ends of
\* the buffer and ends in \s*, so the buffer is one include directive
\* followed by white space only.
includes_captures(buf) ==
    /\ buf # <<>>
    /\ buf[1] = "inc"
    /\ \A i \in 2..Len(buf) : buf[i] = "blank"

\* A new PreProcessor on the main file.
InitReadLine ==
    /\ rl_pc = "idle"
    /\ main_file \in SeqsUpTo(LineKinds, MaxLines)
    /\ inc_file \in SeqsUpTo({"text", "blank", "hash"}, 1)
    /\ inc_exists \in BOOLEAN
    /\ reader = [file |-> "main", pos |-> 0]
    /\ file_stack = <<>>
    /\ pp_buffer = <<>>
    /\ buffer_idx = 0
    /\ rl_ret = NoResult
    /\ rl_reads = 0
    /\ PipelineIdle /\ PipelineLocalsInit /\ ExecIdle /\ NameIdle /\ CtxIdle

\* self.reader.read_line(&mut self.buffer): the line read, appended to the
\* buffer, and the reader behind it.
RlRead == IF reader.pos < Len(Content(reader.file))
          THEN <<Content(reader.file)[reader.pos + 1]>> ELSE <<>>
RlReadLen == IF RlRead = <<>> THEN 0 ELSE LineLen(RlRead[1])
RlBuffer == pp_buffer \o RlRead
RlAdvanced == [reader EXCEPT !.pos = @ + Len(RlRead)]
RlCount == (rl_reads + 1) % (MaxReads + 1)

\* read_line is called (line 30).
RlCall ==
    /\ rl_pc \in {"idle", "returned"}
    /\ rl_pc' = "loop"
    /\ rl_reads' = 0
    /\ UNCHANGED <<main_file, inc_file, inc_exists, reader, file_stack,
                   pp_buffer, buffer_idx, rl_ret>>
    /\ UNCHANGED <<pvars, evars, nvars, cvars>>

\* lines 36-49: the buffer starts with '#' and is no include: continue.
RlSkipDirective ==
    /\ rl_pc = "loop"
    /\ starts_with_hash(RlBuffer)
    /\ ~includes_captures(RlBuffer)
    /\ pp_buffer' = RlBuffer
    /\ reader' = RlAdvanced
    /\ buffer_idx' = 0
    /\ rl_reads' = RlCount
    /\ UNCHANGED <<rl_pc, main_file, inc_file, inc_exists, file_stack, rl_ret>>
    /\ UNCHANGED <<pvars, evars, nvars, cvars>>

\* lines 41-49: the include is opened, the old reader is pushed: continue.
RlInclude ==
    /\ rl_pc = "loop"
    /\ starts_with_hash(RlBuffer)
    /\ includes_captures(RlBuffer)
    /\ inc_exists /\ Len(file_stack) < MaxOpen
    /\ pp_buffer' = RlBuffer
    /\ buffer_idx' = 0
    /\ rl_reads' = RlCount
    /\ reader' = [file |-> "inc", pos |-> 0]
    /\ file_stack' = Append(file_stack, RlAdvanced)
    /\ UNCHANGED <<rl_pc, main_file, inc_file, inc_exists, rl_ret>>
    /\ UNCHANGED <<pvars, evars, nvars, cvars>>

\* line 45: File::open fails (no such file, or no file descriptor left) and
\* the ? returns the error.
RlIncludeFails ==
    /\ rl_pc = "loop"
    /\ starts_with_hash(RlBuffer)
    /\ includes_captures(RlBuffer)
    /\ ~(inc_exists /\ Len(file_stack) < MaxOpen)
    /\ pp_buffer' = RlBuffer
    /\ buffer_idx' = 0
    /\ rl_reads' = RlCount
    /\ reader' = RlAdvanced
    /\ rl_ret' = [kind |-> "Err", len |-> 0]
    /\ rl_pc' = "returned"
    /\ UNCHANGED <<main_file, inc_file, inc_exists, file_stack>>
    /\ UNCHANGED <<pvars, evars, nvars, cvars>>

\* lines 52-55: at the end of an included file go back to the reader below
\* and continue, otherwise return Ok(x).
RlMatch ==
    /\ rl_pc = "loop"
    /\ ~starts_with_hash(RlBuffer)
    /\ pp_buffer' = RlBuffer
    /\ buffer_idx' = 0
    /\ rl_reads' = RlCount
    /\ IF RlReadLen = 0 /\ file_stack # <<>>
       THEN /\ reader' = Last(file_stack)
            /\ file_stack' = Front(file_stack)
            /\ UNCHANGED <<rl_pc, rl_ret>>
       ELSE /\ reader' = RlAdvanced
            /\ rl_ret' = [kind |-> "Ok", len |-> RlReadLen]
            /\ rl_pc' = "returned"
            /\ UNCHANGED file_stack
    /\ UNCHANGED <<main_file, inc_file, inc_exists>>
    /\ UNCHANGED <<pvars, evars, nvars, cvars>>

RlIteration ==
    \/ RlSkipDirective
    \/ RlInclude
    \/ RlIncludeFails
    \/ RlMatch

NextReadLine ==
    \/ RlCall
    \/ RlSkipDirective
    \/ RlInclude
    \/ RlIncludeFails
    \/ RlMatch

SpecReadLine == InitReadLine /\ [][NextReadLine]_vars

\* A call that has started keeps running: the loop takes its next iteration.
FairSpecReadLine == SpecReadLine /\ WF_vars(RlIteration)

\* C10: with every included file existing, each call of read_line returns.
C10_ReadLineReturns ==
    (rl_pc = "loop" /\ inc_exists) ~> (rl_pc = "returned")

====
